---- MODULE Spec2Model ----
(***************************************************************************)
(* Model of bark/srt_gen.py: parse_srt, time_to_seconds, generate_silence  *)
(* and the srt_to_audio pipeline (timeline assembly and chunked export).   *)
(*                                                                         *)
(* Representation choices                                                  *)
(*  - A Python str is a sequence of one-character strings.                 *)
(*  - Times are held in integer milliseconds: the float                    *)
(*    H*3600 + M*60 + S + ms/1000 seconds of time_to_seconds is the exact  *)
(*    integer H*3600000 + M*60000 + S*1000 + ms here, so the factor        *)
(*    "* 1000" of the gap computation is the identity on this unit.        *)
(*    Floating-point rounding is not modelled.                             *)
(*  - An AudioSegment is a sequence of runs [kind, cue, ms]; a run of      *)
(*    0 ms is no run at all, so an audio value is empty exactly when its   *)
(*    sequence of runs is empty.  The cue field is an annotation telling   *)
(*    which cue a run was produced for.                                    *)
(*  - The input file is given as the sequence of its blocks, each block    *)
(*    being the list of lines block.strip().split("\n") yields.            *)
(***************************************************************************)
EXTENDS Integers, Sequences, FiniteSets, TLC

\* ------------------------------------------------------------------ bounds
MaxBlocks   == 3   \* blocks in the input file
MaxChunk    == 3   \* chunk_size ranges over 1..MaxChunk
MaxSynthLen == 2   \* the synthesis adapter returns 0..MaxSynthLen ms of audio

\* ------------------------------------------------------- string primitives
Whitespace == {" "}
Digits     == {"0", "1", "2", "3", "4", "5", "6", "7", "8", "9"}

DigitVal(c) ==
  CASE c = "0" -> 0 [] c = "1" -> 1 [] c = "2" -> 2 [] c = "3" -> 3
    [] c = "4" -> 4 [] c = "5" -> 5 [] c = "6" -> 6 [] c = "7" -> 7
    [] c = "8" -> 8 [] c = "9" -> 9

Max(a, b) == IF a >= b THEN a ELSE b

Min(a, b) == IF a <= b THEN a ELSE b

Drop(s, k) == SubSeq(s, k + 1, Len(s))

IsPrefix(p, s) == Len(p) <= Len(s) /\ SubSeq(s, 1, Len(p)) = p

RECURSIVE LStrip(_)
LStrip(s) ==
  IF s # <<>> /\ Head(s) \in Whitespace THEN LStrip(Tail(s)) ELSE s

RECURSIVE RStrip(_)
RStrip(s) ==
  IF s # <<>> /\ s[Len(s)] \in Whitespace
    THEN RStrip(SubSeq(s, 1, Len(s) - 1))
    ELSE s

\* str.strip()
Strip(s) == RStrip(LStrip(s))

\* str.split(sep): left to right, non-overlapping; cur is the piece
\* being collected
RECURSIVE SplitRec(_, _, _)
SplitRec(s, sep, cur) ==
  IF s = <<>> THEN <<cur>>
  ELSE IF IsPrefix(sep, s)
         THEN <<cur>> \o SplitRec(Drop(s, Len(sep)), sep, <<>>)
         ELSE SplitRec(Tail(s), sep, Append(cur, Head(s)))

Split(s, sep) == SplitRec(s, sep, <<>>)

\* sep in s
Contains(sep, s) == Len(Split(s, sep)) > 1

\* " ".join(lines)
RECURSIVE JoinSpace(_)
JoinSpace(lines) ==
  IF lines = <<>> THEN <<>>
  ELSE IF Len(lines) = 1 THEN lines[1]
  ELSE lines[1] \o <<" ">> \o JoinSpace(Tail(lines))

AllDigits(s) == s # <<>> /\ \A i \in 1..Len(s) : s[i] \in Digits

RECURSIVE DecimalValue(_)
DecimalValue(s) ==
  IF s = <<>> THEN 0
  ELSE 10 * DecimalValue(SubSeq(s, 1, Len(s) - 1)) + DigitVal(s[Len(s)])

\* int(tok) accepts surrounding whitespace and one leading sign
IntValid(tok) ==
  LET s == Strip(tok)
  IN  \/ AllDigits(s)
      \/ s # <<>> /\ Head(s) \in {"-", "+"} /\ AllDigits(Tail(s))

IntValue(tok) ==
  LET s == Strip(tok)
  IN  IF Head(s) = "-" THEN 0 - DecimalValue(Tail(s))
      ELSE IF Head(s) = "+" THEN DecimalValue(Tail(s))
      ELSE DecimalValue(s)

\* ---------------------------------------------------------- time_to_seconds
Colon == <<":">>
Comma == <<",">>

\* time_to_seconds raises ValueError: a tuple unpacking of the wrong
\* arity, or an int() of a non-integer field
TimeRaises(time_str) ==
  LET hms == Split(time_str, Colon)
  IN  \/ Len(hms) # 3
      \/ Len(Split(hms[3], Comma)) # 2
      \/ ~IntValid(hms[1])
      \/ ~IntValid(hms[2])
      \/ ~IntValid(Split(hms[3], Comma)[1])
      \/ ~IntValid(Split(hms[3], Comma)[2])

\* the value returned, in milliseconds
time_to_seconds(time_str) ==
  LET hms == Split(time_str, Colon)
      sms == Split(hms[3], Comma)
  IN  IntValue(hms[1]) * 3600000 + IntValue(hms[2]) * 60000
        + IntValue(sms[1]) * 1000 + IntValue(sms[2])

\* ---------------------------------------------------------------- parse_srt
Arrow == <<" ", "-", "-", ">", " ">>

\* the block is dropped by one of the two "continue" statements
BlockSkipped(lines) ==
  \/ Len(lines) < 3
  \/ ~Contains(Arrow, Strip(lines[2]))

\* the block passes both checks and then raises ValueError
BlockRaises(lines) ==
  /\ ~BlockSkipped(lines)
  /\ LET range == Split(Strip(lines[2]), Arrow)
     IN  \/ Len(range) # 2
         \/ TimeRaises(range[1])
         \/ TimeRaises(range[2])

\* the entry appended for a block that is neither skipped nor raising
BlockEntry(lines) ==
  LET range == Split(Strip(lines[2]), Arrow)
  IN  [idx        |-> Strip(lines[1]),
       start_time |-> time_to_seconds(range[1]),
       end_time   |-> time_to_seconds(range[2]),
       text       |-> Strip(JoinSpace(Drop(lines, 2)))]

RECURSIVE ParseBlocks(_)
ParseBlocks(blocks) ==
  IF blocks = <<>> THEN [raised |-> FALSE, entries |-> <<>>]
  ELSE IF BlockSkipped(Head(blocks)) THEN ParseBlocks(Tail(blocks))
  ELSE IF BlockRaises(Head(blocks)) THEN [raised |-> TRUE, entries |-> <<>>]
  ELSE LET rest == ParseBlocks(Tail(blocks))
       IN  IF rest.raised THEN rest
           ELSE [raised  |-> FALSE,
                 entries |-> <<BlockEntry(Head(blocks))>> \o rest.entries]

parse_srt(blocks) == ParseBlocks(blocks)

\* ------------------------------------------------------------------- audio
\* AudioSegment.empty()
EmptyAudio == <<>>

Run(kind, cue, ms) ==
  IF ms > 0 THEN <<[kind |-> kind, cue |-> cue, ms |-> ms]>> ELSE <<>>

\* generate_silence(duration_ms): AudioSegment.silent yields no frames for
\* a duration that is not positive
generate_silence(cue, duration_ms) == Run("silence", cue, duration_ms)

\* numpy_array_to_audiosegment applied to the adapter's samples
numpy_array_to_audiosegment(cue, ms) == Run("speech", cue, ms)

\* len(audio), in milliseconds
RECURSIVE AudioLen(_)
AudioLen(audio) ==
  IF audio = <<>> THEN 0 ELSE Head(audio).ms + AudioLen(Tail(audio))

\* ------------------------------------------------------------------ inputs
Str_0 == <<"0", ":", "0", ":", "0", ",", "0">>
Str_1 == <<"0", ":", "0", ":", "0", ",", "1">>
Str_2 == <<"0", ":", "0", ":", "0", ",", "2">>
Str_3 == <<"0", ":", "0", ":", "0", ",", "3">>
Str_61s  == <<"0", ":", "1", ":", "1", ",", "0">>
Str_1h2  == <<"1", ":", "0", ":", "0", ",", "2">>
Str_NoComma == <<"0", ":", "0", ":", "0">>

\* well-formed blocks
BlockA == << <<"1">>, Str_0 \o Arrow \o Str_1, <<"h", "i">> >>
BlockB == << <<"2">>, Str_2 \o Arrow \o Str_3, <<"h", " ">>, <<"i">> >>
BlockC == << <<"3">>, <<" ">> \o Str_61s \o Arrow \o Str_1h2, <<" ", "h">> >>

\* malformed blocks
BlockShort   == << <<"4">>, Str_0 \o Arrow \o Str_1 >>
BlockNoArrow == << <<"5">>, Str_0, <<"h">> >>
BlockBadTime == << <<"6">>, <<"x">> \o Arrow \o <<"x">>, <<"h">> >>
BlockTwoArrows ==
  << <<"7">>, Str_0 \o Arrow \o Str_1 \o Arrow \o Str_2, <<"h">> >>
BlockNoComma == << <<"8">>, Str_NoComma \o Arrow \o Str_1, <<"h">> >>

GoodBlocks == {BlockA, BlockB, BlockC}

MalformedBlocks ==
  {BlockShort, BlockNoArrow, BlockBadTime, BlockTwoArrows, BlockNoComma}

Blocks == GoodBlocks \cup MalformedBlocks

Files == UNION {[1..k -> Blocks] : k \in 0..MaxBlocks}

\* what generate_audio can do: return this many milliseconds of samples,
\* or raise
SynthLens == 0..MaxSynthLen

SynthOutcomes == SynthLens \cup {-1}

\* ------------------------------------------------------------------- state
VARIABLES
  exists,             \* os.path.exists(srt_file_path)
  readable,           \* open()/read() of the file succeeds
  file,               \* the blocks of the file
  chunk_size,         \* argument chunk_size
  pc,                 \* position in srt_to_audio
  err,                \* the exception that ended the run, or "none"
  dir_created,        \* os.makedirs(output_dir) has run
  parsed,             \* parse_srt has been entered
  subtitles,          \* result of parse_srt
  idx,                \* enumerate index of the cue being processed
  final_audio,        \* running buffer
  previous_end_time,  \* timeline cursor
  part_number,        \* next part number
  exports,            \* files written, in order
  pending,            \* cues accumulated in final_audio since its last reset
  silences,           \* log of generate_silence requests
  synth_calls         \* log of generate_audio calls

vars == <<exists, readable, file, chunk_size, pc, err, dir_created, parsed,
          subtitles, idx, final_audio, previous_end_time, part_number,
          exports, pending, silences, synth_calls>>

inputs == <<exists, readable, file, chunk_size>>

Init ==
  /\ exists \in BOOLEAN
  /\ readable \in BOOLEAN
  /\ readable => exists
  /\ file \in Files
  /\ ~readable => file = <<>>
  /\ chunk_size \in 1..MaxChunk
  /\ pc = "check"
  /\ err = "none"
  /\ dir_created = FALSE
  /\ parsed = FALSE
  /\ subtitles = <<>>
  /\ idx = 0
  /\ final_audio = EmptyAudio
  /\ previous_end_time = 0
  /\ part_number = 1
  /\ exports = <<>>
  /\ pending = <<>>
  /\ silences = <<>>
  /\ synth_calls = <<>>

\* --------------------------------------------------- helpers of the loop
\* the gap without its clamp at 0
SilenceDuration_NoClamp(start_time, prev_end) == start_time - prev_end

\* silence_duration = max(0, (start_time - previous_end_time) * 1000)
SilenceDuration(start_time, prev_end) == Max(0, start_time - prev_end)

\* synthesis skipped for every cue
HasText_Never(text) == FALSE

\* the test "if text.strip()"
HasText(text) == Strip(text) # <<>>

\* a cursor that never moves backwards
NextCursor_Max(prev_end, end_time) == Max(prev_end, end_time)

\* previous_end_time = end_time
NextCursor(prev_end, end_time) == end_time

\* the boundary tested on idx instead of idx + 1
IsChunkBoundary_Early(i, c) == i % c = 0

\* the test "(idx + 1) % chunk_size == 0"
IsChunkBoundary(i, c) == (i + 1) % c = 0

\* a final flush that does not look at the buffer
HasRemaining_Always(audio) == TRUE

\* the test "len(final_audio) > 0"
HasRemaining(audio) == AudioLen(audio) > 0

\* final_audio.export(output_part_{part_number}.wav)
Exported(exps, part, audio, cues) ==
  Append(exps, [part_number |-> part, audio |-> audio, cues |-> cues])

\* the buffer kept after an export
SaveChunk_NoReset(audio, part, exps, cues) ==
  [final_audio |-> audio,
   part_number |-> part + 1,
   exports     |-> Exported(exps, part, audio, cues),
   pending     |-> <<>>]

\* the part number kept after an export
SaveChunk_NoIncrement(audio, part, exps, cues) ==
  [final_audio |-> EmptyAudio,
   part_number |-> part,
   exports     |-> Exported(exps, part, audio, cues),
   pending     |-> <<>>]

\* the body of "if (idx + 1) % chunk_size == 0": export, reset, increment
SaveChunk(audio, part, exps, cues) ==
  [final_audio |-> EmptyAudio,
   part_number |-> part + 1,
   exports     |-> Exported(exps, part, audio, cues),
   pending     |-> <<>>]

\* the cue being processed (enumerate counts from 0)
Entry == subtitles[idx + 1]

\* ----------------------------------------------------------------- actions
\* the output directory made before the input path is tested
CheckInput_AfterMakeDirs ==
  /\ pc = "check"
  /\ dir_created' = TRUE
  /\ IF exists
       THEN pc' = "makedirs" /\ err' = err
       ELSE pc' = "error" /\ err' = "FileNotFoundError"
  /\ UNCHANGED <<inputs, parsed, subtitles, idx, final_audio,
                 previous_end_time, part_number, exports, pending, silences,
                 synth_calls>>

\* lines 73-74: the input path is tested first
CheckInput ==
  /\ pc = "check"
  /\ IF exists
       THEN pc' = "makedirs" /\ err' = err
       ELSE pc' = "error" /\ err' = "FileNotFoundError"
  /\ UNCHANGED <<inputs, dir_created, parsed, subtitles, idx, final_audio,
                 previous_end_time, part_number, exports, pending, silences,
                 synth_calls>>

\* line 76
MakeDirs ==
  /\ pc = "makedirs"
  /\ dir_created' = TRUE
  /\ pc' = "parse"
  /\ UNCHANGED <<inputs, err, parsed, subtitles, idx, final_audio,
                 previous_end_time, part_number, exports, pending, silences,
                 synth_calls>>

\* lines 77-81: parse_srt, then the initialisation of the loop state
Parse ==
  /\ pc = "parse"
  /\ parsed' = TRUE
  /\ IF ~readable
       THEN pc' = "error" /\ err' = "OSError" /\ subtitles' = subtitles
       ELSE IF parse_srt(file).raised
         THEN pc' = "error" /\ err' = "ValueError" /\ subtitles' = subtitles
         ELSE /\ subtitles' = parse_srt(file).entries
              /\ pc' = IF parse_srt(file).entries = <<>> THEN "final" ELSE "gap"
              /\ err' = err
  /\ final_audio' = EmptyAudio
  /\ previous_end_time' = 0
  /\ part_number' = 1
  /\ UNCHANGED <<inputs, dir_created, idx, exports, pending, silences,
                 synth_calls>>

\* lines 84-90: the gap before the cue
EmitGap ==
  /\ pc = "gap"
  /\ LET d == SilenceDuration(Entry.start_time, previous_end_time)
     IN  /\ final_audio' = final_audio \o generate_silence(idx, d)
         /\ silences' = Append(silences, [cue |-> idx, ms |-> d])
  /\ pending' = Append(pending, idx)
  /\ pc' = "synth"
  /\ UNCHANGED <<inputs, err, dir_created, parsed, subtitles, idx,
                 previous_end_time, part_number, exports, synth_calls>>

\* a failed synthesis swallowed: the cue gets no speech and the loop goes on
Synthesize_SwallowFailure ==
  /\ pc = "synth"
  /\ IF HasText(Entry.text)
       THEN \E r \in SynthOutcomes :
              /\ synth_calls' = Append(synth_calls,
                   [cue |-> idx, text |-> Entry.text, ok |-> r >= 0, ms |-> r])
              /\ final_audio' =
                   final_audio \o numpy_array_to_audiosegment(idx, r)
              /\ pc' = "advance"
              /\ err' = err
       ELSE /\ pc' = "advance"
            /\ UNCHANGED <<final_audio, synth_calls, err>>
  /\ UNCHANGED <<inputs, dir_created, parsed, subtitles, idx,
                 previous_end_time, part_number, exports, pending, silences>>

\* lines 93-96: synthesis of a cue that has text; generate_audio returns
\* samples or raises, and an exception leaves srt_to_audio
Synthesize ==
  /\ pc = "synth"
  /\ IF HasText(Entry.text)
       THEN \E r \in SynthOutcomes :
              /\ synth_calls' = Append(synth_calls,
                   [cue |-> idx, text |-> Entry.text, ok |-> r >= 0, ms |-> r])
              /\ IF r >= 0
                   THEN /\ final_audio' =
                             final_audio \o numpy_array_to_audiosegment(idx, r)
                        /\ pc' = "advance"
                        /\ err' = err
                   ELSE /\ final_audio' = final_audio
                        /\ pc' = "error"
                        /\ err' = "SynthesisFailure"
       ELSE /\ pc' = "advance"
            /\ UNCHANGED <<final_audio, synth_calls, err>>
  /\ UNCHANGED <<inputs, dir_created, parsed, subtitles, idx,
                 previous_end_time, part_number, exports, pending, silences>>

\* lines 98-106: the cursor, the chunk boundary, the next iteration
Advance ==
  /\ pc = "advance"
  /\ previous_end_time' = NextCursor(previous_end_time, Entry.end_time)
  /\ IF IsChunkBoundary(idx, chunk_size)
       THEN LET saved == SaveChunk(final_audio, part_number, exports, pending)
            IN  /\ final_audio' = saved.final_audio
                /\ part_number' = saved.part_number
                /\ exports' = saved.exports
                /\ pending' = saved.pending
       ELSE UNCHANGED <<final_audio, part_number, exports, pending>>
  /\ idx' = idx + 1
  /\ pc' = IF idx + 1 < Len(subtitles) THEN "gap" ELSE "final"
  /\ UNCHANGED <<inputs, err, dir_created, parsed, subtitles, silences,
                 synth_calls>>

\* lines 108-114: the remaining audio
FinalFlush ==
  /\ pc = "final"
  /\ IF HasRemaining(final_audio)
       THEN exports' = Exported(exports, part_number, final_audio, pending)
       ELSE exports' = exports
  /\ pc' = "done"
  /\ UNCHANGED <<inputs, err, dir_created, parsed, subtitles, idx,
                 final_audio, previous_end_time, part_number, pending,
                 silences, synth_calls>>

Next ==
  \/ CheckInput
  \/ MakeDirs
  \/ Parse
  \/ EmitGap
  \/ Synthesize
  \/ Advance
  \/ FinalFlush

Spec == Init /\ [][Next]_vars

\* ------------------------------------------------- vocabulary of the claims
N == Len(subtitles)

Ceil(n, c) == (n + c - 1) \div c

\* declared end of the cue before cue i (cues counted from 0), 0 for the first
PrevEnd(i) == IF i = 0 THEN 0 ELSE subtitles[i].end_time

\* the gap before cue i as the declared times alone give it
Gap(i) ==
  IF subtitles[i + 1].start_time > PrevEnd(i)
    THEN subtitles[i + 1].start_time - PrevEnd(i)
    ELSE 0

CallsFor(i) == {j \in 1..Len(synth_calls) : synth_calls[j].cue = i}

\* milliseconds the adapter returned for cue i, 0 when it returned nothing
SynthMs(i) ==
  IF \E j \in CallsFor(i) : synth_calls[j].ok
    THEN synth_calls[CHOOSE j \in CallsFor(i) : synth_calls[j].ok].ms
    ELSE 0

\* what cue i adds to the buffer: its gap, then its speech
Contribution(i) == Run("silence", i, Gap(i)) \o Run("speech", i, SynthMs(i))

RECURSIVE Concat(_, _)
Concat(lo, hi) ==
  IF lo > hi THEN <<>> ELSE Contribution(lo) \o Concat(lo + 1, hi)

\* contents of chunk k (counted from 0): cues [k*c, (k+1)*c)
ExpectedChunk(k) ==
  Concat(k * chunk_size, Min((k + 1) * chunk_size, N) - 1)

CueRange(lo, count) == [j \in 1..count |-> lo + j - 1]

\* ------------------------------------------------------------------ claims

\* C1 as stated: a completed run over n >= 1 cues exports exactly
\* ceil(n/c) units, numbered 1..ceil(n/c) in order, each of c cues except
\* the last, which has the remaining n - c*(ceil(n/c)-1) cues.
C1_Original ==
  (pc = "done" /\ N >= 1) =>
    /\ Len(exports) = Ceil(N, chunk_size)
    /\ \A k \in 1..Len(exports) :
         /\ exports[k].part_number = k
         /\ Len(exports[k].cues) =
              IF k < Ceil(N, chunk_size) THEN chunk_size
              ELSE N - chunk_size * (Ceil(N, chunk_size) - 1)

\* C1 amended: a completed run over n >= 1 cues exports floor(n/c) units of
\* c consecutive cues each, plus one unit for the remaining n mod c cues
\* exactly when n mod c > 0 and the audio of those cues is non-empty; the
\* units are numbered 1, 2, ... in export order.
C1_ChunkCount ==
  (pc = "done" /\ N >= 1) =>
    LET full == N \div chunk_size
        rem  == N % chunk_size
        tail == rem > 0 /\ Concat(full * chunk_size, N - 1) # <<>>
    IN  /\ Len(exports) = full + (IF tail THEN 1 ELSE 0)
        /\ \A k \in 1..Len(exports) :
             /\ exports[k].part_number = k
             /\ exports[k].cues =
                  CueRange((k - 1) * chunk_size,
                           IF k <= full THEN chunk_size ELSE rem)

C1_Witness ==
  /\ pc = "done"
  /\ N >= 3
  /\ chunk_size = 2
  /\ Len(exports) = Ceil(N, 2)
  /\ N % 2 = 1
  /\ Len(exports[Len(exports)].cues) = 1

\* C2: the k-th exported unit holds exactly the contributions of the cues
\* at positions [k*c, (k+1)*c) in cue order, each cue's gap silence first
\* and its synthesized audio after it.
C2_ChunkContents ==
  \A k \in 1..Len(exports) : exports[k].audio = ExpectedChunk(k - 1)

C2_Witness ==
  /\ pc = "done"
  /\ Len(exports) >= 2
  /\ \E j \in 1..(Len(exports[2].audio) - 1) :
       /\ exports[2].audio[j].kind = "silence"
       /\ exports[2].audio[j + 1].kind = "speech"
       /\ exports[2].audio[j].cue = exports[2].audio[j + 1].cue

\* C3: part numbers of the exported units start at 1 and strictly increase
\* in export order; part_number is incremented once per chunk-boundary
\* export and never otherwise, so no two exports share a number.
C3_PartNumbers ==
  /\ part_number = 1 + idx \div chunk_size
  /\ Len(exports) >= 1 => exports[1].part_number = 1
  /\ \A j, k \in 1..Len(exports) :
       j < k => exports[j].part_number < exports[k].part_number
  /\ \A k \in 1..Len(exports) : exports[k].part_number <= part_number

C3_Witness ==
  /\ pc = "done"
  /\ N % chunk_size # 0
  /\ Len(exports) >= 2
  /\ exports[Len(exports)].part_number = part_number

\* C4: the silence requested before a cue is max(0, start - previous end),
\* never negative, exactly 0 when the cue starts before the previous cue
\* ended, and such a cue does not stop the run.
C4_GapClamp ==
  /\ \A j \in 1..Len(silences) :
       LET s == subtitles[j].start_time
           p == PrevEnd(j - 1)
       IN  /\ silences[j].cue = j - 1
           /\ silences[j].ms >= 0
           /\ s < p => silences[j].ms = 0
           /\ s >= p => silences[j].ms = s - p
  /\ pc = "done" => Len(silences) = N

C4_Witness ==
  /\ pc = "done"
  /\ \E j \in 2..Len(silences) :
       /\ subtitles[j].start_time < subtitles[j - 1].end_time
       /\ silences[j].ms = 0

\* C5 as stated: parse_srt raises only when the input cannot be read,
\* whatever the blocks contain.
C5_ParserRaisesOnlyOnIOFailure ==
  (parsed /\ err \in {"OSError", "ValueError"}) => ~readable

\* C6: with a missing input path the run ends in FileNotFoundError before
\* anything else: no output directory, no parsing, no synthesis, no export.
C6_MissingInput ==
  ~exists =>
    /\ pc \in {"check", "error"}
    /\ pc = "error" => err = "FileNotFoundError"
    /\ ~dir_created
    /\ ~parsed
    /\ synth_calls = <<>>
    /\ exports = <<>>

C6_Witness == ~exists /\ pc = "error" /\ err = "FileNotFoundError"

\* cues whose synthesis step has been taken
SynthStepTaken(i) ==
  \/ i < idx
  \/ i = idx /\ pc = "advance"
  \/ i = idx /\ pc = "error" /\ err = "SynthesisFailure"

AllAudio ==
  [k \in 1..Len(exports) |-> exports[k].audio] \o <<final_audio>>

ParsedTextNonEmpty ==
  \A i \in 1..N : Strip(subtitles[i].text) # <<>>

\* C8: a synthesis failure on cue i ends the run there: it is the last
\* synthesis call, nothing is exported afterwards, and the exported units
\* are exactly the floor(i/c) complete chunks before cue i.
C8_SynthesisFailureAborts ==
  \A j \in 1..Len(synth_calls) :
    ~synth_calls[j].ok =>
      /\ j = Len(synth_calls)
      /\ pc = "error"
      /\ err = "SynthesisFailure"
      /\ idx = synth_calls[j].cue
      /\ Len(exports) = synth_calls[j].cue \div chunk_size
      /\ \A k \in 1..Len(exports) :
           /\ exports[k].cues = CueRange((k - 1) * chunk_size, chunk_size)
           /\ exports[k].audio = ExpectedChunk(k - 1)

C8_Witness ==
  /\ pc = "error"
  /\ err = "SynthesisFailure"
  /\ Len(exports) >= 1
  /\ final_audio # <<>>
  /\ idx + 1 < N

\* C9: the cursor is 0 before the first cue and afterwards the declared
\* end_time of the last processed cue, also when that is smaller than the
\* cursor was; every gap follows from the declared times alone, and an
\* export leaves the cursor alone.
C9_Cursor ==
  /\ previous_end_time = PrevEnd(idx)
  /\ \A j \in 1..Len(silences) : silences[j].ms = Gap(j - 1)

C9_Witness ==
  /\ idx >= 2
  /\ subtitles[idx].end_time < subtitles[idx - 1].end_time
  /\ previous_end_time = subtitles[idx].end_time
  /\ Len(exports) >= 1

\* C10: a chunk-boundary flush always exports the buffer and takes a part
\* number, empty buffer or not; the final flush exports only a non-empty
\* buffer; a completed run has floor(n/c) units plus one exactly when the
\* audio accumulated since the last boundary is non-empty.
C10_FlushStep ==
  /\ (pc = "advance" /\ (idx + 1) % chunk_size = 0) =>
       /\ exports' = Append(exports, [part_number |-> part_number,
                                      audio |-> final_audio,
                                      cues |-> pending])
       /\ part_number' = part_number + 1
  /\ (pc = "advance" /\ (idx + 1) % chunk_size # 0) =>
       /\ exports' = exports
       /\ part_number' = part_number
  /\ pc = "final" =>
       /\ Len(exports') = Len(exports) + (IF final_audio = <<>> THEN 0 ELSE 1)
       /\ part_number' = part_number
  /\ pc' = "done" =>
       Len(exports') =
         N \div chunk_size + (IF final_audio' = <<>> THEN 0 ELSE 1)

C10_Flushes == [][C10_FlushStep]_vars

C10_Witness ==
  /\ pc = "done"
  /\ N % chunk_size # 0
  /\ final_audio = <<>>
  /\ Len(exports) = N \div chunk_size
  /\ \E k \in 1..Len(exports) : exports[k].audio = <<>>

====
